---- MODULE Spec2Model ----
(***************************************************************************)
(* Verification model of hdbg/pjatkbot: the schedule reconciler            *)
(* (replace_or_fill_day), the ParserManager day selection and work loop,   *)
(* and the NotificationManager (the planner of pending notifications).     *)
(*                                                                         *)
(* Conventions                                                             *)
(*   - a NaiveDate is a day number (2025-01-13 is day 13 of the model's    *)
(*     calendar); a DateTime<Utc> is a number of seconds, day * 86400 + s. *)
(*   - Option<T> is a set: {} is None, {v} is Some(v).                     *)
(*   - an ObjectId is a natural number handed out by a counter.            *)
(*   - a HashSet<OID<Class>> compares rows by content (db.rs, impl         *)
(*     PartialEq for OID<T>), so it holds one row per content.             *)
(*   - the "notifications" collection is a bag of Notification documents:  *)
(*     the store gives every inserted document an _id of its own, so equal *)
(*     documents can be stored more than once.                             *)
(*                                                                         *)
(* Specifications                                                          *)
(*   SpecReconcile  calls of replace_or_fill_day on the classes collection *)
(*   SpecSelect     select_date applied to drawn cursor / store / today    *)
(*   Spec           the ParserManager::work loop                           *)
(*   SpecPlanner    NotificationManager::work with the parser and the bot  *)
(*                  as its environment                                     *)
(*   SpecPlannerLive  SpecPlanner with the planner task scheduled fairly   *)
(***************************************************************************)
EXTENDS Integers, Sequences, FiniteSets, Bags, TLC

VARIABLES
    classes,    \* the "classes" collection: a set of OID<Class> rows
    nextId,     \* the next ObjectId that ObjectId::new() hands out
    datas,      \* the "parsing_datas" collection: a sequence of Data rows
    today,      \* Utc::now().date_naive()
    pc,         \* position of the ParserManager task: "run", "sleep", "dead"
    events,     \* the UpdateEvents channel: a sequence of batches
    chanOpen,   \* whether the receiving end of the channel still exists
    call,       \* history: the last replace_or_fill_day call
    tick,       \* history: the last parse_next invocation of the work loop
    users,          \* the "users" collection: a set of OID<User> rows
    notifications,  \* the "notifications" collection: a bag of documents
    utcNow,         \* Utc::now()
    plannerPc,      \* position of NotificationManager::work
    outbound,       \* the NotificationEvents channel: a sequence of batches
    handled,        \* history: the last step of the planner
    updateTxAlive,  \* whether a sender of the UpdateEvents channel exists
    dispatcherPc,   \* position of Propagator::work
    poll,           \* the Propagator's tick in progress, then its record
    senderPc,       \* position of the notifications_sender task
    delivery,       \* history: the last event the sender worked on
    aspState,       \* ASPEmulator::state
    pjatkState,     \* Parser::state
    lastRequest     \* history: the last request to the portal and its result

vars == <<classes, nextId, datas, today, pc, events, chanOpen, call, tick,
          users, notifications, utcNow, plannerPc, outbound, handled,
          updateTxAlive, dispatcherPc, poll, senderPc, delivery,
          aspState, pjatkState, lastRequest>>

\* what the planner's runs leave alone, and what the parser's runs do
parserState == <<datas, today, pc, chanOpen, call, tick>>
plannerState == <<users, notifications, utcNow, plannerPc, outbound, handled>>
tasksState ==
    <<updateTxAlive, dispatcherPc, poll, senderPc, delivery,
      aspState, pjatkState, lastRequest>>

----------------------------------------------------------------------------
(* Bounds of the model                                                     *)

MaxParsed == 2      \* longest list a parse_day returns
MaxIds == 4         \* ObjectIds handed out in one run
Today0 == 13        \* the date at start-up (2025-01-13)
MaxDayShift == 1    \* how many midnights pass during a run
MaxTicks == 11      \* parse_next invocations in one run
MaxClasses == 2     \* classes the parser adds while the planner runs
MaxUsers == 1       \* users the onboarding dialog stores in one run
MaxAdvance == 2     \* hours that pass during a run of the planner
MaxQueue == 1       \* batches waiting in the UpdateEvents channel
MaxRetryAfters == 10 \* RetryAfter answers of Telegram to one message
MaxBatchLen == 2     \* events of the first batch the sender receives
MaxLines == 2        \* lines of a response of the portal

(* Program constants                                                       *)

SecondsPerDay == 86400
EndOfDay == 86399           \* NaiveTime::from_hms_opt(23, 59, 59)
StartOfDay == 0             \* NaiveTime::MIN
WarsawOffset == 3600        \* Europe/Warsaw in January: UTC+01:00
DaysAhead == 7              \* Config::days_ahead
ParserName == "pjatk"       \* Parser::NAME

None == {}
Some(v) == {v}
Unwrap(o) == CHOOSE v \in o : TRUE

Range(s) == {s[i] : i \in 1..Len(s)}

----------------------------------------------------------------------------
(* The portal: what a detail panel can show.  The kind strings are the     *)
(* portal's, written without diacritics.  The detail panel of a cell       *)
(* carries the date the overview was asked for.                            *)

CellIds == {"a", "b", "c"}
KindOfCell(id) ==
    CASE id = "a" -> "Wyklad"
      [] id = "b" -> "Cwiczenia"
      [] id = "c" -> "Internet - cwiczenia"

\* 01:00:00 and 09:00:00 local time
LocalTimes == {3600, 32400}

PjatkClass(date) ==
    {[id |-> i, kind |-> KindOfCell(i), date |-> date, from |-> f] :
        i \in CellIds, f \in LocalTimes}

SeqsUpTo(S, n) == UNION {[1..k -> S] : k \in 0..n}

\* the raw days parse_day_raw can return for a date
RawDays(date) == SeqsUpTo(PjatkClass(date), MaxParsed)

----------------------------------------------------------------------------
(* deduct.rs                                                               *)

Panic == "panic"

DeductKind(kind) ==
    CASE kind \in {"Wyklad", "Lektorat"} -> "Lecture"
      [] kind = "Cwiczenia" -> "Seminar"
      [] kind = "Projekt dyplomowy" -> "DiplomaThesis"
      [] OTHER -> Panic

\* local date and time in Europe/Warsaw, converted to UTC
DeductRange(date, from) == date * SecondsPerDay + from - WarsawOffset

DeductAll(item) ==
    [class_id |-> item.id,
     kind |-> DeductKind(item.kind),
     start |-> DeductRange(item.date, item.from)]

Multi(raw) == [i \in 1..Len(raw) |-> DeductAll(raw[i])]

Panics(raw) == \E i \in 1..Len(raw) : DeductKind(raw[i].kind) = Panic

\* the typed days parse_day can return for a date
ParsedDays(date) == {Multi(raw) : raw \in {r \in RawDays(date) : ~Panics(r)}}

----------------------------------------------------------------------------
(* db.rs                                                                   *)

DateNaive(t) == t \div SecondsPerDay
WithTime(t, s) == DateNaive(t) * SecondsPerDay + s

CreateRangeQuery(date) ==
    [gt |-> WithTime(date, StartOfDay), lt |-> WithTime(date, EndOfDay)]

Find(coll, query) ==
    {r \in coll : r.data.start > query.gt /\ r.data.start < query.lt}

Contents(rows) == {r.data : r \in rows}

\* the HashSets that inserting rows one by one can build: one row per
\* content, the row kept is the first the cursor delivers
HashSets(rows) ==
    {s \in SUBSET rows :
        \A c \in Contents(rows) : Cardinality({r \in s : r.data = c}) = 1}

\* HashSet::difference under OID's content equality
DifferenceByRow(a, b) == {r \in a : r \notin b}
Difference(a, b) == {r \in a : r.data \notin Contents(b)}

----------------------------------------------------------------------------
(* parsing/manager.rs: replace_or_fill_day                                 *)

\* add_oid followed by HashSet::from_iter: the i-th parsed class gets the
\* i-th fresh ObjectId, and of several classes of equal content the first
\* is kept
NewClassesSet(parsed, base) ==
    {[id |-> base + i - 1, data |-> parsed[i]] :
        i \in {j \in 1..Len(parsed) : \A k \in 1..(j - 1) : parsed[k] # parsed[j]}}

\* The writes of a session become the collection when commit_transaction
\* is reached; when `?` leaves the function before it, the session is
\* dropped with its transaction open and the writes are discarded.
TxnOutcomeNoSession(coll, staged, committed) == staged
TxnOutcome(coll, staged, committed) == IF committed THEN staged ELSE coll

NoDelta == [added |-> {}, removed |-> {}]

\* classes.peek() is None, "no work to do": the default delta is returned
\* before any call to the store
NoWorkRemovesStored(coll) ==
    [ok |-> TRUE, err |-> "none", coll |-> {},
     delta |-> [added |-> {}, removed |-> coll],
     inserted |-> {}, deleted |-> coll, minted |-> 0]
NoWork(coll) ==
    [ok |-> TRUE, err |-> "none", coll |-> coll, delta |-> NoDelta,
     inserted |-> {}, deleted |-> {}, minted |-> 0]

\* Every way one call can end: the result, the collection afterwards, the
\* delta, the step that failed and the number of ObjectIds minted.
ReplaceOrFillDay(coll, parsed, base) ==
    IF parsed = <<>>
    THEN {NoWork(coll)}
    ELSE
      LET query == CreateRangeQuery(parsed[1].start)
          new == NewClassesSet(parsed, base)
          Failed(step, staged, ins, del, n) ==
              [ok |-> FALSE, err |-> step,
               coll |-> TxnOutcome(coll, staged, FALSE), delta |-> NoDelta,
               inserted |-> ins, deleted |-> del, minted |-> n]
          Ends(db) ==
              LET ins == Difference(new, db)
                  rem == Difference(db, new)
              IN  {[ok |-> TRUE, err |-> "none",
                    coll |-> TxnOutcome(coll, (coll \cup ins) \ rem, TRUE),
                    delta |-> [added |-> ins, removed |-> rem],
                    inserted |-> ins, deleted |-> rem,
                    minted |-> Len(parsed)]}
                  \cup (IF ins = {} THEN {}
                        ELSE {Failed("insert", coll, {}, {}, Len(parsed))})
                  \cup {Failed("delete", (coll \cup ins) \ done, ins, done,
                               Len(parsed)) :
                            done \in (SUBSET rem) \ {rem}}
      IN  {Failed("find", coll, {}, {}, 0)}
          \cup UNION {Ends(db) : db \in HashSets(Find(coll, query))}

----------------------------------------------------------------------------
(* SpecReconcile: replace_or_fill_day called again and again on the        *)
(* classes collection, from the empty collection.                          *)

ReconcileDates == {Today0}

NoCall ==
    [made |-> FALSE, parsed |-> <<>>, before |-> {}, ok |-> FALSE,
     err |-> "none", delta |-> NoDelta, inserted |-> {}, deleted |-> {},
     repeat |-> FALSE]

\* n: parse_next invocations so far; clean: every one of them returned Ok
\* and no midnight passed; sel: the day selected by the last one; result:
\* how the last one ended; gap: whether the loop slept between the last two
\* invocations; slept: whether it slept since the last one; delta: the delta
\* the last one returned; batch: the batch handed to the channel by the last
\* tick; today: the date at the last one; failed: what the one before the
\* last selected, when that one failed in parse_day or in
\* replace_or_fill_day and the date has not changed since
NoTick ==
    [n |-> 0, clean |-> TRUE, sel |-> None, result |-> "none",
     gap |-> "first", slept |-> FALSE, delta |-> NoDelta, batch |-> None,
     today |-> Today0, failed |-> None]

\* the instant of the model's start-up: 08:00:00 UTC of the start-up date
Now0 == Today0 * SecondsPerDay + 8 * 3600

\* kind: what the planner's last step was ("none" once anything else has
\* happened since); msg: the message it handled; before: the notifications
\* before it; out: the event it sent; described: every change of the users
\* and classes collections since start-up was sent as an update event
NoHandled ==
    [kind |-> "none", msg |-> None, before |-> EmptyBag, out |-> None,
     described |-> TRUE]

\* no request to the portal yet
\* table: the class cells of the ZajeciaTable of an overview, each by the
\* last line of its detail response, None when the overview has no such
\* table; details: the detail requests made
NoRequest ==
    [kind |-> "none", is_delta |-> FALSE, form |-> <<>>, text |-> <<>>,
     result |-> "none", body |-> None, before |-> <<>>, table |-> None,
     details |-> 0]

\* the other tasks have not started, the maps of hidden fields are empty
TasksIdle ==
    /\ updateTxAlive = TRUE
    /\ dispatcherPc = "wait"
    /\ poll = [step |-> "none", observed |-> None, result |-> <<>>,
               deleted |-> EmptyBag, classes |-> {}, fired |-> EmptyBag]
    /\ senderPc = "recv"
    /\ delivery = [event |-> None, order |-> <<>>, sends |-> <<>>,
                   result |-> "none", dropped |-> 0]
    /\ aspState = <<>>
    /\ pjatkState = <<>>
    /\ lastRequest = NoRequest

\* the planner has not started and its collections are empty
PlannerIdle ==
    /\ users = {}
    /\ notifications = EmptyBag
    /\ utcNow = Now0
    /\ plannerPc = "start"
    /\ outbound = <<>>
    /\ handled = NoHandled

Init ==
    /\ classes = {}
    /\ nextId = 0
    /\ datas = <<>>
    /\ today = Today0
    /\ pc = "run"
    /\ events = <<>>
    /\ chanOpen = TRUE
    /\ call = NoCall
    /\ tick = NoTick
    /\ PlannerIdle
    /\ TasksIdle

CallRecord(parsed, r) ==
    [made |-> TRUE, parsed |-> parsed, before |-> classes, ok |-> r.ok,
     err |-> r.err, delta |-> r.delta, inserted |-> r.inserted,
     deleted |-> r.deleted,
     repeat |-> call.made /\ call.ok /\ call.parsed = parsed]

Reconcile(parsed, r) ==
    /\ nextId + Len(parsed) <= MaxIds
    /\ classes' = r.coll
    /\ nextId' = nextId + r.minted
    /\ call' = CallRecord(parsed, r)
    /\ UNCHANGED <<datas, today, pc, events, chanOpen, tick>>
    /\ UNCHANGED plannerState
    /\ UNCHANGED tasksState

ReconcileOk ==
    \E date \in ReconcileDates : \E parsed \in ParsedDays(date) :
        \E r \in ReplaceOrFillDay(classes, parsed, nextId) :
            r.ok /\ Reconcile(parsed, r)

ReconcileErr ==
    \E date \in ReconcileDates : \E parsed \in ParsedDays(date) :
        \E r \in ReplaceOrFillDay(classes, parsed, nextId) :
            ~r.ok /\ Reconcile(parsed, r)

NextReconcile == ReconcileOk \/ ReconcileErr

SpecReconcile == Init /\ [][NextReconcile]_vars

----------------------------------------------------------------------------
(* Properties of replace_or_fill_day, checked under SpecReconcile          *)

\* the date of an instant in the portal's time zone
LocalDate(t) == (t + WarsawOffset) \div SecondsPerDay

\* the day window [00:00:00, 23:59:59] of the portal's time zone that
\* contains the instant ref
InDayWindow(t, ref) == LocalDate(t) = LocalDate(ref)

Succeeded == call.made /\ call.ok /\ call.parsed # <<>>

\* C1: after a successful replace_or_fill_day of a non-empty parsed day, the
\* stored classes whose start lies in the day window of the parsed day have,
\* as contents, exactly the contents of the parsed day.
C1_StoredDayEqualsParsed ==
    Succeeded =>
        Contents({r \in classes :
                    InDayWindow(r.data.start, call.parsed[1].start)})
            = Range(call.parsed)

\* C2: a successful call that follows a successful call with the same parsed
\* day returns an empty delta and neither inserts nor deletes.
C2_SecondCallIsNoOp ==
    (call.made /\ call.ok /\ call.repeat) =>
        /\ call.delta = NoDelta
        /\ call.inserted = {} /\ call.deleted = {}
        /\ classes = call.before

\* the rows the call loads: the stored classes that start strictly after
\* 00:00:00 and strictly before 23:59:59 (UTC) of the first parsed class's day
LoadedDay(coll, first) ==
    {r \in coll :
        /\ r.data.start > DateNaive(first.start) * SecondsPerDay
        /\ r.data.start < DateNaive(first.start) * SecondsPerDay + EndOfDay}

C4_NoDuplicateContentInDay ==
    \A r1 \in classes : \A r2 \in classes :
        (r1 # r2 /\ InDayWindow(r1.data.start, r2.data.start))
            => r1.data # r2.data

\* C5: a call in which an insert or a delete fails returns an error and no
\* delta and leaves the collection as it was; a call that succeeds has
\* applied all its inserts and deletes.
C5_WritesAreAtomic ==
    /\ (call.made /\ ~call.ok) =>
            /\ classes = call.before
            /\ call.delta = NoDelta
    /\ (call.made /\ call.ok) =>
            classes = (call.before \cup call.delta.added) \ call.delta.removed

\* C5 witness: a delete failed after the insert of the same call was made
C5_Witness ==
    /\ call.made /\ ~call.ok
    /\ call.err = "delete"
    /\ call.inserted # {}

----------------------------------------------------------------------------
(* parsing/manager.rs: ParserManager                                       *)

Min(S) == CHOOSE x \in S : \A y \in S : x <= y
Max(S) == CHOOSE x \in S : \A y \in S : x >= y

GetMaximumDayParsedNoFallback(data, coll) == data.last_day_parsed
GetMaximumDayParsed(data, coll) ==
    IF data.last_day_parsed # None
    THEN data.last_day_parsed
    ELSE IF coll = {} THEN None
         ELSE Some(DateNaive(Max({r.data.start : r \in coll})))

NewData ==
    [name |-> ParserName, last_day_reparsed |-> None, last_day_parsed |-> None]

DataRows(ds) == {i \in 1..Len(ds) : ds[i].name = ParserName}

\* find_one by name, insert_one of a fresh row when there is none: the row
\* returned and the collection afterwards
GetCurrentParserData(ds) ==
    IF DataRows(ds) # {}
    THEN [data |-> ds[Min(DataRows(ds))], datas |-> ds]
    ELSE [data |-> NewData, datas |-> Append(ds, NewData)]

SelectDateStrict(data, coll, now) ==
    LET max == GetMaximumDayParsed(data, coll)
    IN  IF max # None /\ Unwrap(max) - now < DaysAhead
        THEN [date |-> now + ((Unwrap(max) - now) + 1), kind |-> "ParsingNew"]
        ELSE IF max = None
        THEN [date |-> now, kind |-> "ParsingNew"]
        ELSE [date |-> IF /\ data.last_day_reparsed # None
                          /\ Unwrap(data.last_day_reparsed) < now + DaysAhead
                       THEN Unwrap(data.last_day_reparsed) + 1
                       ELSE now,
              kind |-> "Refreshing"]

SelectDate(data, coll, now) ==
    LET maximum_date_parsed == GetMaximumDayParsed(data, coll)
    IN  IF /\ maximum_date_parsed # None
           /\ Unwrap(maximum_date_parsed) - now <= DaysAhead
        THEN [date |-> now + ((Unwrap(maximum_date_parsed) - now) + 1),
              kind |-> "ParsingNew"]
        ELSE IF maximum_date_parsed = None
        THEN [date |-> now, kind |-> "ParsingNew"]
        ELSE [date |-> IF /\ data.last_day_reparsed # None
                          /\ Unwrap(data.last_day_reparsed) < now + DaysAhead
                       THEN Unwrap(data.last_day_reparsed) + 1
                       ELSE now,
              kind |-> "Refreshing"]

\* the cursor row parse_next writes after a successful reconcile
DataUpdateBothFields(data, selector) ==
    [data EXCEPT !.last_day_parsed = Some(selector.date),
                 !.last_day_reparsed = Some(selector.date)]
DataUpdate(data, selector) ==
    IF selector.kind = "ParsingNew"
    THEN [data EXCEPT !.last_day_parsed = Some(selector.date)]
    ELSE [data EXCEPT !.last_day_reparsed = Some(selector.date)]

\* find_one_and_replace({name}, update).upsert(true)
FindOneAndReplace(ds, update) ==
    IF DataRows(ds) # {}
    THEN [ds EXCEPT ![Min(DataRows(ds))] = update]
    ELSE Append(ds, update)

\* the dates for which the portal has cells; it answers every other date
\* with an overview without class cells.  In the runs of the loop every
\* cell is a 09:00 cell.
PortalDates == {Today0}

Overviews(date) ==
    IF date \in PortalDates
    THEN SeqsUpTo({c \in PjatkClass(date) : c.from = 32400}, MaxParsed)
    ELSE {<<>>}

\* a set of rows as a sequence, in the order of the ids
RECURSIVE ToSeq(_)
ToSeq(rows) ==
    IF rows = {} THEN <<>>
    ELSE LET r == CHOOSE x \in rows : \A y \in rows : x.id <= y.id
         IN  <<r>> \o ToSeq(rows \ {r})

\* the batch work builds from a delta: the added classes, then the removed
UpdateEventsAddedOnly(delta) ==
    [i \in 1..Cardinality(delta.added) |->
        [type |-> "ClassAdded", class |-> ToSeq(delta.added)[i]]]
UpdateEvents(delta) ==
    [i \in 1..Cardinality(delta.added) |->
        [type |-> "ClassAdded", class |-> ToSeq(delta.added)[i]]]
    \o [i \in 1..Cardinality(delta.removed) |->
        [type |-> "ClassRemoved", class |-> ToSeq(delta.removed)[i]]]

----------------------------------------------------------------------------
(* Spec: the loop of ParserManager::work.  One action is one pass of the   *)
(* loop body up to the sleep; Sleep is the sleep and the jump back.        *)

CanTick == pc = "run" /\ tick.n < MaxTicks

Invoked(sel, result, delta, batch) ==
    [n |-> tick.n + 1,
     clean |-> tick.clean /\ result = "ok",
     sel |-> sel,
     result |-> result,
     gap |-> IF tick.n = 0 THEN "first"
             ELSE IF tick.slept THEN "slept" ELSE "nosleep",
     slept |-> FALSE,
     delta |-> delta,
     batch |-> batch,
     today |-> today,
     failed |-> IF tick.result = "err" /\ tick.today = today
                THEN tick.sel ELSE None]

\* the cursor collection when `?` returns the error of parse_day or of
\* replace_or_fill_day: the find_one_and_replace below them is not reached
CursorAfterFailureWritten(cur, selector) ==
    FindOneAndReplace(cur.datas, DataUpdate(cur.data, selector))
CursorAfterFailure(cur, selector) == cur.datas

\* parse_next returns Err: in get_current_parser_data or select_date, in
\* parse_day, in replace_or_fill_day, or in the cursor update.  work logs
\* the error and goes to the sleep.
TickErr ==
    /\ CanTick
    /\ LET cur == GetCurrentParserData(datas)
           selector == SelectDate(cur.data, classes, today)
       IN  \/ \* the find_one or the insert_one of the cursor row fails
              /\ datas' = datas
              /\ tick' = Invoked(None, "err", NoDelta, None)
              /\ UNCHANGED <<classes, nextId>>
           \/ \* the find_one of the latest class fails
              /\ cur.data.last_day_parsed = None
              /\ datas' = cur.datas
              /\ tick' = Invoked(None, "err", NoDelta, None)
              /\ UNCHANGED <<classes, nextId>>
           \/ \* parse_day returns an error
              /\ datas' = CursorAfterFailure(cur, selector)
              /\ tick' = Invoked(Some(selector), "err", NoDelta, None)
              /\ UNCHANGED <<classes, nextId>>
           \/ \* replace_or_fill_day returns an error
              \E raw \in Overviews(selector.date) :
                /\ ~Panics(raw)
                /\ nextId + Len(raw) <= MaxIds
                /\ \E r \in ReplaceOrFillDay(classes, Multi(raw), nextId) :
                     /\ ~r.ok
                     /\ classes' = r.coll
                     /\ nextId' = nextId + r.minted
                /\ datas' = CursorAfterFailure(cur, selector)
                /\ tick' = Invoked(Some(selector), "err", NoDelta, None)
           \/ \* the cursor update fails after the reconcile committed
              \E raw \in Overviews(selector.date) :
                /\ ~Panics(raw)
                /\ nextId + Len(raw) <= MaxIds
                /\ \E r \in ReplaceOrFillDay(classes, Multi(raw), nextId) :
                     /\ r.ok
                     /\ classes' = r.coll
                     /\ nextId' = nextId + r.minted
                /\ datas' = cur.datas
                /\ tick' = Invoked(Some(selector), "err_cursor", NoDelta, None)
    /\ pc' = "sleep"
    /\ UNCHANGED <<today, events, chanOpen, call>>
    /\ UNCHANGED plannerState
    /\ UNCHANGED tasksState

\* deduct_kind panics inside parse_day: the task of the loop unwinds
TickPanic ==
    /\ CanTick
    /\ LET cur == GetCurrentParserData(datas)
           selector == SelectDate(cur.data, classes, today)
       IN  /\ \E raw \in Overviews(selector.date) : Panics(raw)
           /\ datas' = cur.datas
           /\ tick' = Invoked(Some(selector), "panic", NoDelta, None)
    /\ pc' = "dead"
    /\ UNCHANGED <<classes, nextId, today, events, chanOpen, call>>
    /\ UNCHANGED plannerState
    /\ UNCHANGED tasksState

\* parse_next returns Ok(delta)
TickOk ==
    /\ CanTick
    /\ LET cur == GetCurrentParserData(datas)
           selector == SelectDate(cur.data, classes, today)
       IN  \E raw \in Overviews(selector.date) :
             /\ ~Panics(raw)
             /\ nextId + Len(raw) <= MaxIds
             /\ \E r \in ReplaceOrFillDay(classes, Multi(raw), nextId) :
                  /\ r.ok
                  /\ classes' = r.coll
                  /\ nextId' = nextId + r.minted
                  /\ datas' = FindOneAndReplace(cur.datas,
                                                DataUpdate(cur.data, selector))
                  /\ LET should_send == r.delta.added # {} \/ r.delta.removed # {}
                     IN  IF ~should_send
                         THEN \* continue: back to the head of the loop
                              /\ pc' = "run"
                              /\ events' = events
                              /\ tick' = Invoked(Some(selector), "ok",
                                                 r.delta, None)
                         ELSE /\ pc' = "sleep"
                              /\ events' = IF chanOpen
                                           THEN Append(events, UpdateEvents(r.delta))
                                           ELSE events
                              /\ tick' = Invoked(Some(selector), "ok", r.delta,
                                                 Some(UpdateEvents(r.delta)))
    /\ UNCHANGED <<today, chanOpen, call>>
    /\ UNCHANGED plannerState
    /\ UNCHANGED tasksState

\* tokio::time::sleep(interval) at the end of the loop body
Sleep ==
    /\ pc = "sleep"
    /\ pc' = "run"
    /\ tick' = [tick EXCEPT !.slept = TRUE]
    /\ UNCHANGED <<classes, nextId, datas, today, events, chanOpen, call>>
    /\ UNCHANGED plannerState
    /\ UNCHANGED tasksState

\* midnight (UTC) passes
AdvanceDay ==
    /\ today < Today0 + MaxDayShift
    /\ today' = today + 1
    /\ tick' = [tick EXCEPT !.clean = FALSE]
    /\ UNCHANGED <<classes, nextId, datas, pc, events, chanOpen, call>>
    /\ UNCHANGED plannerState
    /\ UNCHANGED tasksState

\* the receiver of the UpdateEvents channel is dropped
CloseChannel ==
    /\ chanOpen
    /\ chanOpen' = FALSE
    /\ UNCHANGED <<classes, nextId, datas, today, pc, events, call, tick>>
    /\ UNCHANGED plannerState
    /\ UNCHANGED tasksState

Next == TickOk \/ TickErr \/ TickPanic \/ Sleep \/ AdvanceDay \/ CloseChannel

Spec == Init /\ [][Next]_vars

----------------------------------------------------------------------------
(* Properties of the work loop, checked under Spec                         *)

Forward(date) == Some([date |-> date, kind |-> "ParsingNew"])
Refresh(date) == Some([date |-> date, kind |-> "Refreshing"])

\* C6 as the forward crawl seed is stated: with days_ahead = 7, while every
\* tick succeeds and the date stays the start-up date, the k-th tick for
\* k = 1..7 selects start-up date + (k - 1) and the eighth tick selects the
\* start-up date in Refresh mode.
C6_EighthTickRefreshes ==
    (tick.clean /\ tick.n >= 1) =>
        /\ tick.n <= 7 => Unwrap(tick.sel).date = Today0 + (tick.n - 1)
        /\ tick.n = 8 => tick.sel = Refresh(Today0)

\* C6 amended: while every tick succeeds and the date stays the start-up
\* date, the k-th tick for k = 1..days_ahead + 2 selects start-up date +
\* (k - 1) in Forward mode, and tick days_ahead + 3 (the tenth) selects the
\* start-up date in Refresh mode.
C6_ForwardCrawlSeed ==
    (tick.clean /\ tick.n >= 1) =>
        /\ tick.n <= DaysAhead + 2 => tick.sel = Forward(Today0 + (tick.n - 1))
        /\ tick.n = DaysAhead + 3 => tick.sel = Refresh(Today0)

\* C6 witness: the first Refresh tick of an all-successful run
C6_Witness ==
    /\ tick.clean
    /\ tick.n = DaysAhead + 3
    /\ classes # {}

\* C9: the loop sleeps between any two consecutive invocations of
\* parse_next.
C9_SleepBetweenTicks == tick.gap # "nosleep"

\* C10: after a tick in which a parsed cell carried an unknown kind string,
\* the ParserManager task is still alive.
C10_UnknownKindKeepsTaskAlive == tick.result = "panic" => pc # "dead"

\* the number of positions of a batch that hold the event e
Occurrences(batch, e) == Cardinality({i \in 1..Len(batch) : batch[i] = e})

\* C11: after a successful tick a batch is handed to the events channel
\* exactly when the delta is non-empty; that one batch holds one ClassAdded
\* per added class, one ClassRemoved per removed class and nothing else; it
\* is the last batch of the channel while the receiver exists, and when the
\* send fails the loop goes on to its sleep.
C11_OneBatchPerNonEmptyDelta ==
    tick.result = "ok" =>
        /\ tick.batch # None
             <=> (tick.delta.added # {} \/ tick.delta.removed # {})
        /\ tick.batch # None =>
             LET batch == Unwrap(tick.batch)
             IN  /\ \A r \in tick.delta.added :
                      Occurrences(batch, [type |-> "ClassAdded", class |-> r]) = 1
                 /\ \A r \in tick.delta.removed :
                      Occurrences(batch, [type |-> "ClassRemoved", class |-> r]) = 1
                 /\ Len(batch) = Cardinality(tick.delta.added)
                                   + Cardinality(tick.delta.removed)
                 /\ chanOpen => (events # <<>> /\ events[Len(events)] = batch)
                 /\ pc \in {"sleep", "run"}
        /\ \A i \in 1..Len(events) : events[i] # <<>>

\* C11 witness: a tick whose delta has an added and a removed class hands
\* its batch to a channel whose receiver is gone
C11_Witness ==
    /\ tick.result = "ok"
    /\ tick.delta.added # {} /\ tick.delta.removed # {}
    /\ tick.batch # None
    /\ ~chanOpen
    /\ pc = "sleep"

----------------------------------------------------------------------------
(* SpecSelect: select_date applied once to a cursor, a store and a date    *)
(* that the loop can have produced: a cursor whose last_day_reparsed is    *)
(* set lies before the maximum day parsed.                                 *)

SelectDays == (Today0 - 3)..(Today0 + DaysAhead + 2)

OptionOf(S) == {None} \cup {Some(v) : v \in S}

\* a store whose latest class starts at 09:00 local time of the date
StoreWithLatest(date) ==
    {[id |-> 0,
      data |-> [class_id |-> "a", kind |-> "Lecture",
                start |-> DeductRange(date, 32400)]]}

InitSelect ==
    /\ today = Today0
    /\ nextId = 1
    /\ pc = "run"
    /\ events = <<>>
    /\ chanOpen = TRUE
    /\ call = NoCall
    /\ tick = NoTick
    /\ PlannerIdle
    /\ TasksIdle
    /\ classes \in {{}} \cup {StoreWithLatest(d) : d \in SelectDays}
    /\ \E parsed \in OptionOf(SelectDays), reparsed \in OptionOf(SelectDays) :
         /\ datas = <<[name |-> ParserName,
                       last_day_reparsed |-> reparsed,
                       last_day_parsed |-> parsed]>>
         /\ reparsed # None =>
              LET max == GetMaximumDayParsed(datas[1], classes)
              IN  max # None /\ Unwrap(reparsed) < Unwrap(max)

Select ==
    /\ tick.n = 0
    /\ tick' = Invoked(Some(SelectDate(GetCurrentParserData(datas).data,
                                       classes, today)),
                       "none", NoDelta, None)
    /\ UNCHANGED <<classes, nextId, datas, today, pc, events, chanOpen, call>>
    /\ UNCHANGED plannerState
    /\ UNCHANGED tasksState

NextSelect == Select

SpecSelect == InitSelect /\ [][NextSelect]_vars

\* the day select_date works from: the cursor's last_day_parsed, or, when
\* that is unset, the date of the latest start in the store
MaxDay ==
    IF datas[1].last_day_parsed # None THEN datas[1].last_day_parsed
    ELSE {d \in SelectDays :
            /\ \E r \in classes : DateNaive(r.data.start) = d
            /\ \A r \in classes : DateNaive(r.data.start) <= d}

Selected == Unwrap(tick.sel)

\* C7: select_date chooses Forward mode exactly when max is absent or
\* max - today <= days_ahead, max being the cursor's last_day_parsed or,
\* when that is unset, the greatest start date of the store; the Forward
\* target is max + 1 day, or today when max is absent.
C7_ForwardModeRule ==
    tick.n = 1 =>
        /\ Selected.kind = "ParsingNew"
             <=> (MaxDay = None \/ Unwrap(MaxDay) - today <= DaysAhead)
        /\ Selected.kind = "ParsingNew" =>
             Selected.date = IF MaxDay = None THEN today ELSE Unwrap(MaxDay) + 1

\* C7 witness: Forward mode from the store's latest class, the cursor field
\* being unset, at the edge max - today = days_ahead
C7_Witness ==
    /\ tick.n = 1
    /\ datas[1].last_day_parsed = None
    /\ classes # {}
    /\ Unwrap(MaxDay) - today = DaysAhead
    /\ Selected = [date |-> today + DaysAhead + 1, kind |-> "ParsingNew"]

\* C8: a Refresh target is last_day_reparsed + 1 day when that date is
\* before today + days_ahead and today otherwise, and so lies in
\* [today, today + days_ahead).
C8_RefreshTargetInWindow ==
    (tick.n = 1 /\ Selected.kind = "Refreshing") =>
        LET reparsed == datas[1].last_day_reparsed
        IN  /\ Selected.date =
                 IF reparsed # None /\ Unwrap(reparsed) + 1 < today + DaysAhead
                 THEN Unwrap(reparsed) + 1
                 ELSE today
            /\ today <= Selected.date
            /\ Selected.date < today + DaysAhead

----------------------------------------------------------------------------
(* notifications/manager.rs: NotificationManager                           *)

Groups == {"g1", "g2"}

\* Notification::_10Mins and Notification::_1Hour of the onboarding dialog
TenMinutes == 600
OneHour == 3600
Constraints == {TenMinutes, OneHour}

\* a user the users collection holds from an earlier run: both groups, both
\* constraints
StoredUser ==
    [id |-> 10,
     data |-> [telegram_id |-> 7000, groups |-> Groups,
               constraints |-> Constraints]]

\* the user the k-th completed onboarding dialog stores: group "g1" and the
\* constraint chosen, if any
NewUser(k, constraints) ==
    [id |-> 10 + k,
     data |-> [telegram_id |-> 7000 + k, groups |-> {"g1"},
               constraints |-> constraints]]

\* the class the parser stores under the ObjectId id: it starts id + 1
\* hours and ten minutes after the model's start-up instant; the classes
\* of even id are held for both groups, those of odd id for "g2"
NewClass(id) ==
    [id |-> id,
     data |-> [class_id |-> "a", kind |-> "Lecture",
               start |-> Now0 + (id + 1) * OneHour + TenMinutes,
               groups |-> IF id % 2 = 0 THEN Groups ELSE {"g2"}]]

\* a notification an earlier run left behind; its fire_date has passed
LeftOver ==
    [related_user |-> 10, related_class |-> 99, related_user_id |-> 7000,
     fire_date |-> Now0 - TenMinutes]

\* find(doc! {field: code}) on users or classes: the rows whose array
\* `field` holds the code.  The documents have a "groups" array and no
\* other field of groups, and a filter on an absent field matches no row.
FindByGroup(coll, field, code) ==
    IF field = "groups" THEN {r \in coll : code \in r.data.groups} ELSE {}

Notification(user, class, fire_date) ==
    [related_user |-> user.id, related_class |-> class.id,
     related_user_id |-> user.data.telegram_id, fire_date |-> fire_date]

\* delete_many(query): the documents the query matches are gone
DeleteMany(coll, matched) == [n \in DOMAIN coll \ matched |-> coll[n]]

\* find_one_and_replace(filter, replacement): the first document the
\* filter matches is replaced; when none matches, the replacement is
\* inserted only if the upsert option is set
FindOneAndReplaceDocKeepOld(coll, filter, replacement, upsert) ==
    IF BagIn(filter, coll)
    THEN coll (+) SetToBag({replacement})
    ELSE IF upsert THEN coll (+) SetToBag({replacement}) ELSE coll
FindOneAndReplaceDoc(coll, filter, replacement, upsert) ==
    IF BagIn(filter, coll)
    THEN (coll (-) SetToBag({filter})) (+) SetToBag({replacement})
    ELSE IF upsert THEN coll (+) SetToBag({replacement}) ELSE coll

\* upsert_notification: find_one_and_replace(as_doc, notification) with the
\* default options, in which upsert is not set
UpsertNotification(coll, notification) ==
    FindOneAndReplaceDoc(coll, notification, notification, FALSE)

RECURSIVE UpsertAll(_, _)
UpsertAll(coll, ns) ==
    IF ns = {} THEN coll
    ELSE LET n == CHOOSE x \in ns : TRUE
         IN  UpsertAll(UpsertNotification(coll, n), ns \ {n})

\* the notifications the constraint loop builds for a user and a class: one
\* per constraint, skipping those with notification_time < Utc::now()
Planned(user, class, t) ==
    {Notification(user, class, class.data.start - d) :
        d \in {c \in user.data.constraints : ~(class.data.start - c < t)}}

HandleClassAdd(class, us, coll, t) ==
    LET affected_users ==
            UNION {FindByGroup(us, "groups", g) : g \in class.data.groups}
    IN  UpsertAll(coll, UNION {Planned(u, class, t) : u \in affected_users})

\* handle_class_removal: the ClassDeleted event; the store is not written
HandleClassRemoval(class, us) ==
    LET users_in_groups ==
            UNION {FindByGroup(us, "group", g) : g \in class.data.groups}
    IN  [type |-> "ClassDeleted", class |-> class.data,
         affected_users |-> {u.data.telegram_id : u \in users_in_groups}]

HandleUserUpdate(user, cls, coll, t) ==
    LET kept == DeleteMany(coll,
                           {n \in DOMAIN coll : n.related_user = user.id})
        affected_classes ==
            UNION {FindByGroup(cls, "groups", g) : g \in user.data.groups}
    IN  UpsertAll(kept, UNION {Planned(user, c, t) : c \in affected_classes})

\* full_resync: "insert new class if not exists"
InsertAlways(coll, n) == coll (+) SetToBag({n})
InsertIfNone(coll, n) ==
    IF BagIn(n, coll) THEN coll ELSE coll (+) SetToBag({n})

RECURSIVE InsertAll(_, _)
InsertAll(coll, ns) ==
    IF ns = {} THEN coll
    ELSE LET n == CHOOSE x \in ns : TRUE
         IN  InsertAll(InsertIfNone(coll, n), ns \ {n})

\* the rows of the aggregation: $unwind gives one row per user and group,
\* $lookup joins the classes whose groups hold that group
StudentAndAllClasses(us, cls) ==
    UNION {{[student |-> u, groups |-> g,
             classes |-> FindByGroup(cls, "groups", g)] :
                g \in u.data.groups} : u \in us}

\* one row of the aggregation: classes that started before now are
\* skipped, and every notification not yet stored is inserted
ResyncRow(coll, row, t) ==
    IF row.student.data.constraints = {} THEN coll
    ELSE InsertAll(coll,
            UNION {Planned(row.student, c, t) :
                      c \in {k \in row.classes : ~(k.data.start < t)}})

RECURSIVE ResyncRows(_, _, _)
ResyncRows(coll, rows, t) ==
    IF rows = {} THEN coll
    ELSE LET row == CHOOSE x \in rows : TRUE
         IN  ResyncRows(ResyncRow(coll, row, t), rows \ {row}, t)

\* remove_old_notifications: delete_many(fire_date < now)
RemoveOldNotifications(coll, t) ==
    DeleteMany(coll, {n \in DOMAIN coll : n.fire_date < t})

FullResync(us, cls, coll, t) ==
    RemoveOldNotifications(ResyncRows(coll, StudentAndAllClasses(us, cls), t), t)

----------------------------------------------------------------------------
(* SpecPlanner: NotificationManager::work.  The parser (deltas of the      *)
(* classes collection and their update events), the bot (users stored by   *)
(* the onboarding dialog, UserUpdate messages of a holder of update_tx)    *)
(* and the clock are the environment.  A handler is one action; it reads   *)
(* the clock once.                                                         *)

InitPlanner ==
    /\ classes = {}
    /\ nextId = 0
    /\ datas = <<>>
    /\ today = Today0
    /\ pc = "run"
    /\ events = <<>>
    /\ chanOpen = TRUE
    /\ call = NoCall
    /\ tick = NoTick
    /\ users = {StoredUser}
    /\ notifications = SetToBag({LeftOver})
    /\ utcNow = Now0
    /\ plannerPc = "start"
    /\ outbound = <<>>
    /\ handled = NoHandled
    /\ TasksIdle

\* the record of a step of the planner
Did(kind, msg, out) ==
    [kind |-> kind, msg |-> msg, before |-> notifications, out |-> out,
     described |-> handled.described]

\* the record once something else has happened
Elapsed ==
    [handled EXCEPT !.kind = "none", !.msg = None, !.before = EmptyBag,
                    !.out = None]

\* work: self.full_resync().await? succeeds and the loop is spawned
StartResync ==
    /\ plannerPc = "start"
    /\ notifications' = FullResync(users, classes, notifications, utcNow)
    /\ plannerPc' = "loop"
    /\ handled' = Did("resync", None, None)
    /\ UNCHANGED <<classes, nextId, events, users, utcNow, outbound>>
    /\ UNCHANGED parserState
    /\ UNCHANGED tasksState

\* work: full_resync fails, in the aggregation or in the sweep, and work
\* returns the error without spawning the loop
StartResyncErr ==
    /\ plannerPc = "start"
    /\ \/ notifications' = notifications
       \/ notifications' =
            ResyncRows(notifications, StudentAndAllClasses(users, classes),
                       utcNow)
    /\ plannerPc' = "failed"
    /\ handled' = Did("error", None, None)
    /\ UNCHANGED <<classes, nextId, events, users, utcNow, outbound>>
    /\ UNCHANGED parserState
    /\ UNCHANGED tasksState

\* rx.recv() and the for loop over the batch: the message handled next and
\* the channel once it is taken
NextMessage == Head(events)[1]
Consumed ==
    IF Len(Head(events)) = 1 THEN Tail(events)
    ELSE <<Tail(Head(events))>> \o Tail(events)

CanHandle(type) ==
    /\ plannerPc = "loop"
    /\ events # <<>>
    /\ NextMessage.type = type

HandleClassAdded ==
    /\ CanHandle("ClassAdded")
    /\ notifications' =
         HandleClassAdd(NextMessage.class, users, notifications, utcNow)
    /\ events' = Consumed
    /\ handled' = Did("ClassAdded", Some(NextMessage), None)
    /\ UNCHANGED <<classes, nextId, users, utcNow, plannerPc, outbound>>
    /\ UNCHANGED parserState
    /\ UNCHANGED tasksState

HandleClassRemoved ==
    /\ CanHandle("ClassRemoved")
    /\ LET response == HandleClassRemoval(NextMessage.class, users)
       IN  /\ outbound' = Append(outbound, <<response>>)
           /\ handled' = Did("ClassRemoved", Some(NextMessage), Some(response))
    /\ events' = Consumed
    /\ UNCHANGED <<classes, nextId, users, notifications, utcNow, plannerPc>>
    /\ UNCHANGED parserState
    /\ UNCHANGED tasksState

HandleUserUpdated ==
    /\ CanHandle("UserUpdate")
    /\ notifications' =
         HandleUserUpdate(NextMessage.user, classes, notifications, utcNow)
    /\ events' = Consumed
    /\ handled' = Did("UserUpdate", Some(NextMessage), None)
    /\ UNCHANGED <<classes, nextId, users, utcNow, plannerPc, outbound>>
    /\ UNCHANGED parserState
    /\ UNCHANGED tasksState

\* the first store call of a handler fails: the error is logged and the
\* loop goes on with the next message
HandleFailed ==
    /\ plannerPc = "loop"
    /\ events # <<>>
    /\ events' = Consumed
    /\ handled' = Did("error", Some(NextMessage), None)
    /\ UNCHANGED <<classes, nextId, users, notifications, utcNow, plannerPc,
                   outbound>>
    /\ UNCHANGED parserState
    /\ UNCHANGED tasksState

\* a successful tick of the parser with a non-empty delta: at most one
\* class added and at most one removed
ParserDelta ==
    /\ updateTxAlive
    /\ Len(events) < MaxQueue
    /\ \E added \in {{}, {NewClass(nextId)}},
          removed \in {{}} \cup {{c} : c \in classes} :
         /\ added \cup removed # {}
         /\ nextId + Cardinality(added) <= MaxClasses
         /\ classes' = (classes \cup added) \ removed
         /\ nextId' = nextId + Cardinality(added)
         /\ events' = Append(events,
                             UpdateEvents([added |-> added, removed |-> removed]))
    /\ handled' = Elapsed
    /\ UNCHANGED <<users, notifications, utcNow, plannerPc, outbound>>
    /\ UNCHANGED parserState
    /\ UNCHANGED tasksState

\* handle_notifications_choice: the dialog stores the new user with the
\* chosen groups and at most one constraint; nothing is sent on update_tx
Onboard ==
    /\ Cardinality(users \ {StoredUser}) < MaxUsers
    /\ \E cs \in {{}, {TenMinutes}} :
         users' = users \cup
                    {NewUser(Cardinality(users \ {StoredUser}) + 1, cs)}
    /\ handled' = [Elapsed EXCEPT !.described = FALSE]
    /\ UNCHANGED <<classes, nextId, events, notifications, utcNow, plannerPc,
                   outbound>>
    /\ UNCHANGED parserState
    /\ UNCHANGED tasksState

\* a holder of update_tx sends UserUpdate for a stored user
SendUserUpdate ==
    /\ updateTxAlive
    /\ Len(events) < MaxQueue
    /\ \E u \in users :
         events' = Append(events, <<[type |-> "UserUpdate", user |-> u]>>)
    /\ handled' = Elapsed
    /\ UNCHANGED <<classes, nextId, users, notifications, utcNow, plannerPc,
                   outbound>>
    /\ UNCHANGED parserState
    /\ UNCHANGED tasksState

\* an hour passes
AdvanceClock ==
    /\ utcNow < Now0 + MaxAdvance * OneHour
    /\ utcNow' = utcNow + OneHour
    /\ handled' = Elapsed
    /\ UNCHANGED <<classes, nextId, events, users, notifications, plannerPc,
                   outbound>>
    /\ UNCHANGED parserState
    /\ UNCHANGED tasksState

\* the last sender of the UpdateEvents channel is dropped: the parser's
\* task has ended and the bot has shut down
CloseUpdates ==
    /\ updateTxAlive
    /\ updateTxAlive' = FALSE
    /\ handled' = Elapsed
    /\ UNCHANGED <<dispatcherPc, poll, senderPc, delivery, aspState,
                   pjatkState, lastRequest>>
    /\ UNCHANGED <<classes, nextId, events, users, notifications, utcNow,
                   plannerPc, outbound>>
    /\ UNCHANGED parserState

\* rx.recv() on the drained channel without senders returns Err: the arm
\* logs "loop.channel_closed" and the loop goes round again
RecvClosed ==
    /\ plannerPc = "loop"
    /\ events = <<>>
    /\ ~updateTxAlive
    /\ handled' = Did("channel_closed", None, None)
    /\ plannerPc' = "loop"
    /\ UNCHANGED <<classes, nextId, events, users, notifications, utcNow,
                   outbound>>
    /\ UNCHANGED parserState
    /\ UNCHANGED tasksState

PlannerStep ==
    \/ StartResync \/ StartResyncErr
    \/ HandleClassAdded \/ HandleClassRemoved \/ HandleUserUpdated
    \/ HandleFailed \/ RecvClosed

NextPlanner ==
    \/ StartResync \/ StartResyncErr
    \/ HandleClassAdded \/ HandleClassRemoved \/ HandleUserUpdated
    \/ HandleFailed \/ RecvClosed
    \/ ParserDelta \/ Onboard \/ SendUserUpdate \/ AdvanceClock
    \/ CloseUpdates

SpecPlanner == InitPlanner /\ [][NextPlanner]_vars

----------------------------------------------------------------------------
(* Properties of the planner, checked under SpecPlanner                    *)

Shares(user, class) == user.data.groups \cap class.data.groups # {}

\* the class of the message the planner handled last
HandledClass == Unwrap(handled.msg).class

\* C12: after the planner has handled ClassAdded(c), for every stored user
\* that shares a group with c and every constraint d of the user with
\* c.start - d > now, the notification (user, c, telegram id,
\* fire_date = c.start - d) is in the notifications collection.
C12_ClassAddedPlansSends ==
    handled.kind = "ClassAdded" =>
        \A u \in users : Shares(u, HandledClass) =>
            \A d \in u.data.constraints :
                HandledClass.data.start - d > utcNow =>
                    BagIn(Notification(u, HandledClass,
                                       HandledClass.data.start - d),
                          notifications)

\* C13: after the planner has handled ClassRemoved(c), no notification whose
\* related_class is c's storage id is left in the collection, and the
\* notifications of other classes are as they were before.
C13_ClassRemovedCascades ==
    handled.kind = "ClassRemoved" =>
        /\ \A n \in BagToSet(notifications) :
             n.related_class # HandledClass.id
        /\ \A n \in BagToSet(handled.before) \cup BagToSet(notifications) :
             n.related_class # HandledClass.id =>
                CopiesIn(n, notifications) = CopiesIn(n, handled.before)

\* C14: for every ClassRemoved(c) the planner handles it sends one batch of
\* one ClassDeleted event, whose affected_users are the telegram ids of all
\* stored users that share a group with c.
C14_ClassDeletedNamesAffectedUsers ==
    handled.kind = "ClassRemoved" =>
        /\ handled.out # None
        /\ outbound # <<>>
        /\ outbound[Len(outbound)] = <<Unwrap(handled.out)>>
        /\ Unwrap(handled.out).type = "ClassDeleted"
        /\ Unwrap(handled.out).affected_users =
             {u.data.telegram_id : u \in {x \in users : Shares(x, HandledClass)}}

\* the notifications of the collection that belong to a user
OfUser(coll, user) == {n \in BagToSet(coll) : n.related_user = user.id}

\* C15: when a user u with the constraints {10 min, 1 h} shares a group
\* with exactly two stored classes, each starting more than 1 h from now,
\* then after the planner has handled UserUpdate(u) exactly four
\* notifications of u are stored, one per pair of class and constraint,
\* whatever notifications u had before.
C15_UserUpdateReplansFour ==
    (/\ handled.kind = "UserUpdate"
     /\ Unwrap(handled.msg).user \in users
     /\ Unwrap(handled.msg).user.data.constraints = {TenMinutes, OneHour}
     /\ LET u == Unwrap(handled.msg).user
            mine == {c \in classes : Shares(u, c)}
        IN  /\ Cardinality(mine) = 2
            /\ \A c \in mine : c.data.start - OneHour > utcNow)
    => LET u == Unwrap(handled.msg).user
           mine == {c \in classes : Shares(u, c)}
       IN  /\ OfUser(notifications, u) =
                {Notification(u, c, c.data.start - d) :
                    c \in mine, d \in {TenMinutes, OneHour}}
           /\ \A n \in OfUser(notifications, u) : CopiesIn(n, notifications) = 1

\* the number of stored notifications of a user and a class with a
\* fire_date
Stored(coll, user, class, fire_date) ==
    BagCardinality(DeleteMany(coll,
        {n \in DOMAIN coll : ~(/\ n.related_user = user.id
                               /\ n.related_class = class.id
                               /\ n.fire_date = fire_date)}))

\* C16: after a full resync, for every stored user u, every stored class c
\* that starts in the future and shares a group with u, and every
\* constraint d of u with c.start - d > now, exactly one notification of
\* (u, c) with fire_date = c.start - d is stored, also when several groups
\* of u belong to c.
C16_ResyncPlansEachPairOnce ==
    handled.kind = "resync" =>
        \A u \in users : \A c \in classes :
            (Shares(u, c) /\ c.data.start > utcNow) =>
                \A d \in u.data.constraints :
                    c.data.start - d > utcNow =>
                        Stored(notifications, u, c, c.data.start - d) = 1

\* C16 witness: a resync has planned both notifications of a class for a
\* user two of whose groups belong to the class
C16_Witness ==
    /\ handled.kind = "resync"
    /\ \E u \in users : \E c \in classes :
         /\ Cardinality(u.data.groups \cap c.data.groups) = 2
         /\ \A d \in Constraints :
              /\ d \in u.data.constraints
              /\ c.data.start - d > utcNow
              /\ ~BagIn(Notification(u, c, c.data.start - d), handled.before)
              /\ BagIn(Notification(u, c, c.data.start - d), notifications)

\* the planner task is scheduled: a step of it that can be taken is taken
SpecPlannerLive == SpecPlanner /\ WF_vars(PlannerStep)

\* C17: while the planner's loop runs, a full resync is started again and
\* again: whenever the planner's last step is not a resync, a resync
\* follows.
C17_ResyncRecurs ==
    [](plannerPc = "loop" => <>(handled.kind = "resync"))

\* all update events are handled and the planner has just handled one
Quiescent == plannerPc = "loop" /\ events = <<>>

\* C18: when every change of the users and classes collections was sent as
\* an update event and the planner has handled the last of them, the stored
\* notifications are those a full resync produces from the same users and
\* classes at the same instant, and a full resync run now changes nothing.
C18_IncrementalEqualsResync ==
    (/\ Quiescent
     /\ handled.described
     /\ handled.kind \in {"ClassAdded", "ClassRemoved", "UserUpdate"})
    => /\ notifications = FullResync(users, classes, EmptyBag, utcNow)
       /\ FullResync(users, classes, notifications, utcNow) = notifications

\* C19: no step of the planner (ClassAdded, UserUpdate, full resync) stores
\* a notification whose fire_date is at or before now.
C19_NoInsertAtOrBeforeNow ==
    handled.kind \in {"ClassAdded", "UserUpdate", "resync"} =>
        \A n \in BagToSet(notifications) :
            CopiesIn(n, notifications) > CopiesIn(n, handled.before) =>
                n.fire_date > utcNow

\* C20 (the half the planner has to establish): in every quiescent state,
\* for every stored user, every group g of the user, every stored class
\* that starts in the future and whose groups contain g, and every
\* constraint d of the user with class.start - d > now, the notification
\* with fire_date = class.start - d is stored.
C20_QuiescentStoreIsPlanned ==
    Quiescent =>
        \A u \in users : \A g \in u.data.groups : \A c \in classes :
            (g \in c.data.groups /\ c.data.start > utcNow) =>
                \A d \in u.data.constraints :
                    c.data.start - d > utcNow =>
                        BagIn(Notification(u, c, c.data.start - d),
                              notifications)

\* C21: in every state the planner reaches by full resyncs and by handling
\* ClassAdded and UserUpdate messages, the same message again included, the
\* notifications collection holds at most one row per tuple (user, class,
\* telegram id, fire_date).
C21_OneRowPerTuple ==
    \A n \in BagToSet(notifications) : CopiesIn(n, notifications) = 1

\* C21 witness: ClassAdded is handled for a class whose rows the full
\* resync had already planned, and such a row is there once after
\* upsert_notification replaced it
C21_Witness ==
    /\ handled.kind = "ClassAdded"
    /\ \E n \in BagToSet(handled.before) :
         /\ n.related_class = HandledClass.id
         /\ n.fire_date > utcNow
         /\ CopiesIn(n, notifications) = 1

----------------------------------------------------------------------------
(* notifications.rs: Propagator, the task that turns due notifications    *)
(* into Scheduled events                                                   *)

\* doc! {"fire_date": {"$lte": Utc::now()}}: the documents the query built
\* at the instant observed matches
DueByStrict(coll, observed) ==
    {n \in BagToSet(coll) : n.fire_date < observed}
DueBy(coll, observed) ==
    {n \in BagToSet(coll) : n.fire_date <= observed}

\* the documents of a collection that a query matches, in every order a
\* cursor can return them
CursorOrders(coll, matched) ==
    LET n == BagCardinality([d \in matched |-> coll[d]])
    IN  {s \in [1..n -> matched] :
            \A d \in matched :
                Cardinality({i \in 1..n : s[i] = d}) = coll[d]}

ScheduledWithoutUser(class, user_id) ==
    [type |-> "Scheduled", class |-> class, user_id |-> 0]
Scheduled(class, user_id) ==
    [type |-> "Scheduled", class |-> class, user_id |-> user_id]

\* the loop over the cursor: find_one of the class by _id; Scheduled is
\* pushed when it is found, the notification is skipped when it is not
RECURSIVE JoinClasses(_, _)
JoinClasses(found, cls) ==
    IF found = <<>> THEN <<>>
    ELSE LET notification == Head(found)
             class == {c \in cls : c.id = notification.related_class}
         IN  (IF class # {}
              THEN <<Scheduled(Unwrap(class).data,
                               notification.related_user_id)>>
              ELSE <<>>)
             \o JoinClasses(Tail(found), cls)

\* try_find_new up to the end of the loop over the cursor: the query is
\* built from the clock, the matching notifications are read and joined
DispatcherSelect ==
    /\ dispatcherPc = "wait"
    /\ \E found \in CursorOrders(notifications, DueBy(notifications, utcNow)) :
         LET pushed == {n \in DueBy(notifications, utcNow) :
                           \E c \in classes : c.id = n.related_class}
         IN  poll' = [step |-> "selected", observed |-> Some(utcNow),
                      result |-> JoinClasses(found, classes),
                      deleted |-> EmptyBag, classes |-> classes,
                      fired |-> poll.fired (+)
                                [n \in pushed |-> notifications[n]]]
    /\ dispatcherPc' = "delete"
    /\ UNCHANGED <<updateTxAlive, senderPc, delivery, aspState, pjatkState,
                   lastRequest>>
    /\ UNCHANGED <<classes, nextId, events>>
    /\ UNCHANGED parserState
    /\ UNCHANGED plannerState

\* delete_many(query) with the query of the select, then work: a non-empty
\* result is sent as one batch, and the loop waits for the next tick
DispatcherDelete ==
    /\ dispatcherPc = "delete"
    /\ LET matched == DueBy(notifications, Unwrap(poll.observed))
       IN  /\ notifications' = DeleteMany(notifications, matched)
           /\ poll' = [poll EXCEPT !.step = "done",
                                   !.deleted = [n \in matched |-> notifications[n]],
                                   !.classes = classes]
    /\ outbound' = IF poll.result = <<>> THEN outbound
                   ELSE Append(outbound, poll.result)
    /\ dispatcherPc' = "wait"
    /\ UNCHANGED <<updateTxAlive, senderPc, delivery, aspState, pjatkState,
                   lastRequest>>
    /\ UNCHANGED <<classes, nextId, events, users, utcNow, plannerPc, handled>>
    /\ UNCHANGED parserState

\* a store call of try_find_new fails, the find, a find_one or the
\* delete_many: `?` in try_find_new and `?` in work return the error from
\* the task's future
DispatcherStoreErr ==
    /\ dispatcherPc \in {"wait", "delete"}
    /\ poll' = [poll EXCEPT !.step = "failed"]
    /\ dispatcherPc' = "dead"
    /\ UNCHANGED <<updateTxAlive, senderPc, delivery, aspState, pjatkState,
                   lastRequest>>
    /\ UNCHANGED <<classes, nextId, events>>
    /\ UNCHANGED parserState
    /\ UNCHANGED plannerState

----------------------------------------------------------------------------
(* SpecDispatcher: the Propagator polling the notifications collection    *)
(* while the planner and the parser work on it                             *)

NextDispatcher ==
    \/ DispatcherSelect \/ DispatcherDelete \/ DispatcherStoreErr
    \/ StartResync \/ HandleClassAdded \/ HandleClassRemoved
    \/ ParserDelta \/ AdvanceClock

SpecDispatcher == InitPlanner /\ [][NextDispatcher]_vars

\* the bot is started again an hour after an earlier run stopped: the
\* stores hold what that run left, a class and the two notifications
\* planned for it, the earlier one past due and the later one due now
InitRestart ==
    /\ classes = {NewClass(0)}
    /\ nextId = 1
    /\ datas = <<>>
    /\ today = Today0
    /\ pc = "run"
    /\ events = <<>>
    /\ chanOpen = TRUE
    /\ call = NoCall
    /\ tick = NoTick
    /\ users = {StoredUser}
    /\ notifications =
          SetToBag({Notification(StoredUser, NewClass(0),
                                 NewClass(0).data.start - constraint) :
                       constraint \in StoredUser.data.constraints})
    /\ utcNow = Now0 + OneHour
    /\ plannerPc = "start"
    /\ outbound = <<>>
    /\ handled = NoHandled
    /\ TasksIdle

SpecRestart == InitRestart /\ [][NextDispatcher]_vars

\* C22: when a tick of the Propagator completes, the delete used the
\* instant the select observed and removed exactly the rows with
\* fire_date <= that instant, so no such row is left in the collection.
C22_TickDeletesAllDue ==
    [][(dispatcherPc = "delete" /\ dispatcherPc' = "wait") =>
          /\ poll'.observed = poll.observed
          /\ \A n \in BagToSet(notifications') :
                n.fire_date > Unwrap(poll'.observed)
          /\ \A n \in BagToSet(notifications) :
                CopiesIn(n, notifications') =
                    IF n.fire_date <= Unwrap(poll.observed) THEN 0
                    ELSE CopiesIn(n, notifications)]_vars

\* C22 witness: a completed tick deleted a row whose fire_date is the
\* instant it observed and an earlier row, and sent their events
C22_Witness ==
    /\ poll.step = "done"
    /\ \E n \in BagToSet(poll.deleted) : n.fire_date = Unwrap(poll.observed)
    /\ \E n \in BagToSet(poll.deleted) : n.fire_date < Unwrap(poll.observed)
    /\ Len(poll.result) = 2
    /\ outbound # <<>> /\ outbound[Len(outbound)] = poll.result

\* C23: every row a completed tick deleted whose class is in the classes
\* collection was read by the select of that tick and has its Scheduled
\* event in the batch of the tick, whatever the planner inserted between
\* the select and the delete.
C23_DeletedRowsWereScheduled ==
    poll.step = "done" =>
        \A n \in BagToSet(poll.deleted) :
            \A c \in poll.classes :
                c.id = n.related_class =>
                    Cardinality({i \in 1..Len(poll.result) :
                        poll.result[i] = Scheduled(c.data, n.related_user_id)})
                      >= CopiesIn(n, poll.deleted)

\* C28: after a tick of the Propagator in which a store call failed, the
\* task of the Propagator is still running.
C28_StoreErrorKeepsDispatcher ==
    poll.step = "failed" => dispatcherPc # "dead"

----------------------------------------------------------------------------
(* bot.rs: notifications_sender, the task that turns notification events  *)
(* into Telegram messages                                                  *)

ResendAttempts == 10

\* what Telegram answers to the calls of send_message for one message: it
\* answers the first `retries` calls with RetryAfter, the i-th of them
\* asking for i seconds, and the next call with `last`, "ok" or "err"
RemoteScript(retries, last) ==
    [i \in 1..(retries + 1) |->
        IF i <= retries THEN [kind |-> "RetryAfter", seconds |-> i]
        ELSE [kind |-> last, seconds |-> 0]]

\* Telegram accepts after any number of RetryAfter answers, or fails with
\* another error on the first call or on the second
RemoteScripts ==
    {RemoteScript(n, "ok") : n \in 0..MaxRetryAfters}
    \cup {RemoteScript(n, "err") : n \in 0..1}

\* send_message_safe from its i-th pass of the for loop on, slept being
\* the sleeps made so far
RECURSIVE SendLoop(_, _, _)
SendLoop(script, i, slept) ==
    IF i > ResendAttempts
    THEN \* bail!("resend attempts reached")
         [attempts |-> i - 1, slept |-> slept, delivered |-> FALSE,
          result |-> "Err"]
    ELSE LET answer == script[i]
         IN  IF answer.kind = "RetryAfter"
             THEN SendLoop(script, i + 1, Append(slept, answer.seconds))
             ELSE \* Ok(_), or an error that is logged: return Ok(())
                  [attempts |-> i, slept |-> slept,
                   delivered |-> answer.kind = "ok", result |-> "Ok"]

SendMessageSafeOnce(user, script) ==
    [user |-> user, script |-> script, attempts |-> 1, slept |-> <<>>,
     delivered |-> script[1].kind = "ok",
     result |-> IF script[1].kind = "RetryAfter" THEN "Err" ELSE "Ok"]
SendMessageSafe(user, script) ==
    [user |-> user, script |-> script] @@ SendLoop(script, 1, <<>>)

\* users_coll.find_one(doc! {"id": user})
FindUser(us, id) == {u \in us : u.data.telegram_id = id}

\* handle_scheduled: the sends made and the result
HandleScheduled(us, user, script) ==
    IF FindUser(us, user) = {}
    THEN [sends |-> <<>>, result |-> "Ok"]
    ELSE LET sent == SendMessageSafe(user, script)
         IN  [sends |-> <<sent>>, result |-> sent.result]

\* handle_deleted: the for loop over the users in the order of the
\* HashSet's iterator, scripts[i] being Telegram's answers for order[i]
RECURSIVE HandleDeleted(_, _, _)
HandleDeleted(us, order, scripts) ==
    IF order = <<>> THEN [sends |-> <<>>, result |-> "Ok"]
    ELSE IF FindUser(us, Head(order)) = {}
    THEN \* logged; return Ok(())
         [sends |-> <<>>, result |-> "Ok"]
    ELSE LET sent == SendMessageSafe(Head(order), Head(scripts))
         IN  IF sent.result = "Err"
             THEN [sends |-> <<sent>>, result |-> "Err"]
             ELSE LET rest == HandleDeleted(us, Tail(order), Tail(scripts))
                  IN  [sends |-> <<sent>> \o rest.sends,
                       result |-> rest.result]

\* the orders in which an iterator can yield the elements of a set
Orders(S) ==
    {o \in [1..Cardinality(S) -> S] :
        \A i \in 1..Cardinality(S) : \A j \in 1..Cardinality(S) :
            o[i] = o[j] => i = j}

\* the event the sender handles next and the channel once it is handled
NextNotification == Head(outbound)[1]
Delivered ==
    IF Len(Head(outbound)) = 1 THEN Tail(outbound)
    ELSE <<Tail(Head(outbound))>> \o Tail(outbound)

\* the loop of notifications_sender after an event was handled with the
\* outcome r: Err leaves the loop through `?` and ends the task, and the
\* rest of the batch taken from the channel is dropped with it
SenderHandled(order, r) ==
    /\ delivery' = [event |-> Some(NextNotification), order |-> order,
                    sends |-> r.sends, result |-> r.result,
                    dropped |-> IF r.result = "Err"
                                THEN Len(Head(outbound)) - 1 ELSE 0]
    /\ senderPc' = IF r.result = "Err" THEN "dead" ELSE "recv"
    /\ outbound' = IF r.result = "Err" THEN Tail(outbound) ELSE Delivered
    /\ UNCHANGED <<updateTxAlive, dispatcherPc, poll, aspState, pjatkState,
                   lastRequest>>
    /\ UNCHANGED <<classes, nextId, events, users, notifications, utcNow,
                   plannerPc, handled>>
    /\ UNCHANGED parserState

SenderScheduled ==
    /\ senderPc = "recv"
    /\ outbound # <<>>
    /\ NextNotification.type = "Scheduled"
    /\ \E script \in RemoteScripts :
         SenderHandled(<<NextNotification.user_id>>,
                       HandleScheduled(users, NextNotification.user_id, script))

SenderDeleted ==
    /\ senderPc = "recv"
    /\ outbound # <<>>
    /\ NextNotification.type = "ClassDeleted"
    /\ \E order \in Orders(NextNotification.affected_users) :
         \E scripts \in [1..Len(order) -> RemoteScripts] :
            SenderHandled(order, HandleDeleted(users, order, scripts))

----------------------------------------------------------------------------
(* SpecSender: the sender working through two batches of the              *)
(* notifications channel                                                   *)

\* the events of the first batch: they name the stored user 7000, the
\* onboarded user 7001, and 7002, of whom the users collection has no
\* document
SenderEvents ==
    {Scheduled(NewClass(0).data, id) : id \in {7000, 7002}}
    \cup {[type |-> "ClassDeleted", class |-> NewClass(0).data,
           affected_users |-> a] : a \in {{7000, 7001}, {7000, 7002}}}

InitSender ==
    /\ classes = {NewClass(0)}
    /\ nextId = 1
    /\ datas = <<>>
    /\ today = Today0
    /\ pc = "run"
    /\ events = <<>>
    /\ chanOpen = TRUE
    /\ call = NoCall
    /\ tick = NoTick
    /\ users = {StoredUser, NewUser(1, {})}
    /\ notifications = EmptyBag
    /\ utcNow = Now0
    /\ plannerPc = "loop"
    /\ handled = NoHandled
    /\ TasksIdle
    /\ \E batch \in SeqsUpTo(SenderEvents, MaxBatchLen) :
         /\ batch # <<>>
         /\ outbound = <<batch, <<Scheduled(NewClass(0).data,
                                           StoredUser.data.telegram_id)>>>>

NextSender == SenderScheduled \/ SenderDeleted

SpecSender == InitSender /\ [][NextSender]_vars

\* the messages of the event the sender handled last
Sends == {delivery.sends[i] : i \in 1..Len(delivery.sends)}

\* C24: send_message_safe calls send_message at most 10 times for a
\* message and sleeps the asked time after each rate-limited call; when
\* Telegram answers n <= 9 calls with RetryAfter and accepts the next, the
\* message is delivered with n + 1 calls and the result is Ok.
C24_AtMostTenAttempts ==
    \A send \in Sends :
        /\ send.attempts <= 10
        /\ Len(send.slept) = IF (Len(send.script) - 1) < 10 THEN (Len(send.script) - 1) ELSE 10
        /\ \A i \in 1..Len(send.slept) :
                send.slept[i] = send.script[i].seconds
        /\ ((Len(send.script) - 1) <= 9 /\ send.script[Len(send.script)].kind = "ok") =>
                /\ send.delivered
                /\ send.result = "Ok"
                /\ send.attempts = (Len(send.script) - 1) + 1

\* C24 witness: nine calls are rate-limited and the tenth is accepted
C24_Witness ==
    \E send \in Sends :
        /\ (Len(send.script) - 1) = 9
        /\ send.attempts = 10
        /\ Len(send.slept) = 9
        /\ send.delivered

\* C25: when all 10 calls for a message are rate-limited, only that
\* message is dropped: the sender task stays alive and goes on with the
\* rest of the batch and with the later batches.
C25_ExhaustedDropsOneMessage ==
    (\E send \in Sends : send.attempts = 10 /\ Len(send.slept) = 10) =>
        /\ senderPc = "recv"
        /\ delivery.dropped = 0

\* C26: after the sender has handled ClassDeleted without running out of
\* attempts, a message was attempted for every user of affected_users
\* whose document is in the users collection; an id without a document
\* does not keep the others from getting theirs.
C26_CancellationPerFoundUser ==
    (/\ delivery.event # None
     /\ Unwrap(delivery.event).type = "ClassDeleted"
     /\ delivery.result = "Ok") =>
        \A id \in Unwrap(delivery.event).affected_users :
            FindUser(users, id) # {} =>
                \E send \in Sends : send.user = id

\* C27: once the last sender of the planner's UpdateEvents channel is gone,
\* the planner's task eventually leaves its loop and ends.
C27_PlannerExitsOnClosedChannel ==
    []((plannerPc = "loop" /\ ~updateTxAlive) => <>(plannerPc # "loop"))

----------------------------------------------------------------------------
(* parsing/pjatk/aspemu.rs and parsing/pjatk.rs: the maps of hidden form  *)
(* fields.  A string is the sequence of its characters, a response text   *)
(* the sequence of its lines, a line of a delta response the sequence of  *)
(* its fields between the `|`, a line of a page an input element.         *)

EVENTTARGET_STATE == <<"_", "_", "E", "V", "E", "N", "T", "T", "A", "R", "G", "E", "T">>
EVENTARG_STATE ==
    <<"_", "_", "E", "V", "E", "N", "T", "A", "R", "G", "U", "M", "E", "N", "T">>
ViewState == <<"_", "_", "V", "I", "E", "W", "S", "T", "A", "T", "E">>
AsyncPost == <<"_", "_", "A", "S", "Y", "N", "C", "P", "O", "S", "T">>
DataPicker == <<"D", "a", "t", "a", "P", "i", "c", "k", "e", "r">>
RadAJAXControlID == <<"R", "a", "d", "A", "J", "A", "X", "C", "o", "n", "t", "r", "o", "l", "I", "D">>
TrueString == <<"t", "r", "u", "e">>

\* key.starts_with("__")
StartsWithUnderscores(key) ==
    Len(key) >= 2 /\ key[1] = "_" /\ key[2] = "_"

\* HashMap::insert and HashMap::extend
MapInsert(map, key, value) ==
    [k \in DOMAIN map \cup {key} |-> IF k = key THEN value ELSE map[k]]
MapExtend(map, other) ==
    [k \in DOMAIN map \cup DOMAIN other |->
        IF k \in DOMAIN other THEN other[k] ELSE map[k]]

\* update_state_from_html: the inputs whose id starts with "__" and that
\* have a value are inserted
RECURSIVE UpdateStateFromHtml(_, _)
UpdateStateFromHtml(state, inputs) ==
    IF inputs = <<>> THEN state
    ELSE LET state_elem == Head(inputs)
         IN  UpdateStateFromHtml(
                 IF /\ state_elem.id # None
                    /\ StartsWithUnderscores(Unwrap(state_elem.id))
                    /\ state_elem.value # None
                 THEN MapInsert(state, Unwrap(state_elem.id),
                                Unwrap(state_elem.value))
                 ELSE state,
                 Tail(inputs))

\* update_state_from_fragment: a field that starts with "__" takes the
\* field after it as its value; other fields are passed over
RECURSIVE UpdateStateFromFragment(_, _)
UpdateStateFromFragment(state, fields) ==
    IF fields = <<>> THEN state
    ELSE IF ~StartsWithUnderscores(Head(fields))
    THEN UpdateStateFromFragment(state, Tail(fields))
    ELSE IF Len(fields) >= 2
    THEN UpdateStateFromFragment(MapInsert(state, fields[1], fields[2]),
                                 Tail(Tail(fields)))
    ELSE state

\* process_resp: an empty text becomes the absent body and the functor is
\* not called; otherwise the response is what the functor, whose outcome
\* on the text is `applied`, made of it
ProcessResp(state, text, applied) ==
    IF text = <<>>
    THEN [result |-> "Ok", body |-> None, state |-> state]
    ELSE IF applied.result # "Ok"
    THEN [result |-> applied.result, body |-> None, state |-> applied.state]
    ELSE [result |-> "Ok", body |-> Some(applied.body),
          state |-> applied.state]

\* the closure of the Event branch of request: the first line is skipped,
\* the last of the rest is the fragment of hidden fields, and what is
\* between them is the body
EventFunctor(state, text) ==
    LET lines == Tail(text)
    IN  IF lines = <<>>
        THEN [result |-> "BodyAbrupted", body |-> text, state |-> state]
        ELSE [result |-> "Ok", body |-> SubSeq(lines, 1, Len(lines) - 1),
              state |-> UpdateStateFromFragment(state, lines[Len(lines)])]

\* the form of an Event request: a clone of the state with the target,
\* the argument and the overrides of the request
EventForm(state, target, argument, state_override) ==
    MapExtend(
        MapInsert(MapInsert(state, EVENTTARGET_STATE, target),
                  EVENTARG_STATE,
                  IF argument = None THEN <<>> ELSE Unwrap(argument)),
        state_override)

\* the table_insert! of parse_day_raw on self.state, the fields that hold
\* the date being written with req
TableInsert(table, req) ==
    MapInsert(MapInsert(MapInsert(MapInsert(MapInsert(table,
        RadAJAXControlID, DataPicker),
        EVENTTARGET_STATE, DataPicker),
        EVENTARG_STATE, <<>>),
        DataPicker, req),
        AsyncPost, TrueString)

\* what the portal can answer: pages of input elements and delta
\* responses of lines of fields
Pages ==
    SeqsUpTo({[id |-> Some(ViewState), value |-> Some(TrueString)],
              [id |-> Some(ViewState), value |-> None],
              [id |-> Some(DataPicker), value |-> Some(TrueString)]},
             MaxLines)
Deltas ==
    SeqsUpTo({<<<<"_">>, ViewState, TrueString>>,
              <<ViewState, EVENTTARGET_STATE, DataPicker>>,
              <<AsyncPost>>},
             MaxLines)

Requested(kind, is_delta, form, text, r) ==
    [kind |-> kind, is_delta |-> is_delta, form |-> form, text |-> text,
     result |-> r.result, body |-> r.body, before |-> aspState,
     table |-> None, details |-> 0]

\* ASPEmulator::request, RequestKind::Initial
EmuInitial ==
    /\ \E text \in Pages :
         LET r == ProcessResp(aspState, text,
                              [result |-> "Ok", body |-> text,
                               state |-> UpdateStateFromHtml(aspState, text)])
         IN  /\ aspState' = r.state
             /\ lastRequest' = Requested("Initial", FALSE, <<>>, text, r)
    /\ UNCHANGED <<updateTxAlive, dispatcherPc, poll, senderPc, delivery,
                   pjatkState>>
    /\ UNCHANGED <<classes, nextId, events>>
    /\ UNCHANGED parserState
    /\ UNCHANGED plannerState

\* ASPEmulator::request, RequestKind::Event
EmuEvent ==
    /\ \E state_override \in {<<>>, MapInsert(<<>>, DataPicker, TrueString),
                              MapInsert(<<>>, ViewState, <<>>),
                              MapInsert(<<>>, EVENTTARGET_STATE, TrueString)},
          is_delta \in BOOLEAN, text \in Deltas :
         LET form == EventForm(aspState, DataPicker, None, state_override)
             r == ProcessResp(aspState, text, EventFunctor(aspState, text))
         IN  /\ aspState' = r.state
             /\ lastRequest' = Requested("Event", is_delta, form, text, r)
    /\ UNCHANGED <<updateTxAlive, dispatcherPc, poll, senderPc, delivery,
                   pjatkState>>
    /\ UNCHANGED <<classes, nextId, events>>
    /\ UNCHANGED parserState
    /\ UNCHANGED plannerState

\* ASPEmulator::request: send() fails and `?` returns the error
EmuHttpErr ==
    /\ \E kind \in {"Initial", "Event"} :
         lastRequest' =
            Requested(kind, FALSE, <<>>, <<>>,
                      [result |-> "Http", body |-> None])
    /\ UNCHANGED <<updateTxAlive, dispatcherPc, poll, senderPc, delivery,
                   aspState, pjatkState>>
    /\ UNCHANGED <<classes, nextId, events>>
    /\ UNCHANGED parserState
    /\ UNCHANGED plannerState

\* Parser::parse_day_raw: the inputs of the page are read into self.state,
\* table_insert! writes the fields of the request, and the overview that
\* answers the POST is searched for the ZajeciaTable: hpe! returns
\* ParsingFailed when there is none, otherwise parse_detail is called for
\* every class cell and reads the hidden fields of its last line
ParseDayRaw ==
    /\ \E text \in Pages,
          table \in OptionOf({<<>>, <<<<AsyncPost>>>>,
                              <<<<ViewState, EVENTTARGET_STATE, DataPicker>>,
                                <<AsyncPost>>>>}) :
         LET form == TableInsert(UpdateStateFromHtml(pjatkState, text),
                                 TrueString)
             cells == IF table = None THEN <<>> ELSE Unwrap(table)
             first == IF Len(cells) > 0
                      THEN UpdateStateFromFragment(form, cells[1]) ELSE form
         IN  /\ pjatkState' = IF Len(cells) > 1
                              THEN UpdateStateFromFragment(first, cells[2])
                              ELSE first
             /\ lastRequest' =
                    [kind |-> "ParseDay", is_delta |-> TRUE, form |-> form,
                     text |-> text,
                     result |-> IF table = None THEN "ParsingFailed" ELSE "Ok",
                     body |-> IF table = None THEN None ELSE Some(cells),
                     before |-> pjatkState, table |-> table,
                     details |-> Len(cells)]
    /\ UNCHANGED <<updateTxAlive, dispatcherPc, poll, senderPc, delivery,
                   aspState>>
    /\ UNCHANGED <<classes, nextId, events>>
    /\ UNCHANGED parserState
    /\ UNCHANGED plannerState

NextPortal ==
    EmuInitial \/ EmuEvent \/ EmuHttpErr \/ ParseDayRaw

SpecPortal == Init /\ [][NextPortal]_vars

\* C29: after any sequence of requests, the maps of hidden fields that
\* the portal clients keep between requests hold only keys that begin
\* with "__".
C29_HiddenStateKeysPrefixed ==
    \A key \in DOMAIN aspState \cup DOMAIN pjatkState :
        StartsWithUnderscores(key)

\* C30: an Event request sent as a delta request whose response text is
\* empty returns BodyAbrupted and leaves the map of hidden fields as it
\* was.
C30_EmptyDeltaIsBodyAbrupted ==
    (/\ lastRequest.kind = "Event"
     /\ lastRequest.is_delta
     /\ lastRequest.result # "Http"
     /\ lastRequest.text = <<>>) =>
        /\ lastRequest.result = "BodyAbrupted"
        /\ aspState = lastRequest.before

\* C32: for every cell the portal shows for the selected date, deduct_kind
\* maps "Internet - cwiczenia" and "Cwiczenia" to Seminar, "Wyklad" and
\* "Lektorat" to Lecture, "Projekt dyplomowy" to DiplomaThesis, and
\* rejects every other string.
C32_KindDeduction ==
    tick.sel # None =>
        \A cell \in PjatkClass(Unwrap(tick.sel).date) :
            DeductKind(cell.kind) =
                CASE cell.kind \in {"Internet - cwiczenia", "Cwiczenia"} -> "Seminar"
                  [] cell.kind \in {"Wyklad", "Lektorat"} -> "Lecture"
                  [] cell.kind = "Projekt dyplomowy" -> "DiplomaThesis"
                  [] OTHER -> Panic

\* C33: a tick that fails in parse_day or in replace_or_fill_day leaves the
\* cursor as it was and hands no batch to the events channel, and the
\* tick after it, the date being the same, selects the same day and mode.
C33_FailedTickIsRetried ==
    /\ [][(/\ tick'.n = tick.n + 1
            /\ tick'.result = "err"
            /\ tick'.sel # None) =>
              /\ GetCurrentParserData(datas').data
                    = GetCurrentParserData(datas).data
              /\ events' = events
              /\ tick'.batch = None]_vars
    /\ []((tick.failed # None /\ tick.sel # None) => tick.sel = tick.failed)

\* C33 witness: the tick after a failed one selected the same day, got it
\* parsed and stored its classes
C33_Witness ==
    /\ tick.failed # None
    /\ tick.sel = tick.failed
    /\ tick.result = "ok"
    /\ tick.delta.added # {}

\* C31: parse_day_raw on a day whose overview has no ZajeciaTable returns
\* the empty list as a success and makes no detail request.
C31_MissingTableIsEmptyDay ==
    (lastRequest.kind = "ParseDay" /\ lastRequest.table = None) =>
        /\ lastRequest.result = "Ok"
        /\ lastRequest.body = Some(<<>>)
        /\ lastRequest.details = 0

\* C35: the form of an event request is the hidden state, then the
\* overrides of the request, then __EVENTTARGET = target and
\* __EVENTARGUMENT = the argument or "": target and argument win over an
\* override of these keys.
C35_TargetAndArgumentWin ==
    (lastRequest.kind = "Event" /\ lastRequest.result # "Http") =>
        /\ lastRequest.form[EVENTTARGET_STATE] = DataPicker
        /\ lastRequest.form[EVENTARG_STATE] = <<>>
        /\ \E state_override \in
                 {<<>>, MapInsert(<<>>, DataPicker, TrueString),
                  MapInsert(<<>>, ViewState, <<>>),
                  MapInsert(<<>>, EVENTTARGET_STATE, TrueString)} :
              lastRequest.form =
                  MapInsert(MapInsert(MapExtend(lastRequest.before,
                                                state_override),
                                      EVENTTARGET_STATE, DataPicker),
                            EVENTARG_STATE, <<>>)

\* C34: the select of a Propagator tick produces a Scheduled event with
\* the class and the user of exactly the due rows (fire_date <= the
\* instant observed) whose class is in the classes collection, and the
\* delete of the tick removes every due row, those without a class
\* included, and sends the events as the batch of the tick.
C34_ScheduledForDueRowsWithClass ==
    [][/\ (dispatcherPc = "wait" /\ dispatcherPc' = "delete") =>
            LET due == {n \in BagToSet(notifications) : n.fire_date <= utcNow}
                live == {n \in due : \E c \in classes : c.id = n.related_class}
                events_of(n) ==
                    {i \in 1..Len(poll'.result) :
                        \E c \in classes :
                            /\ c.id = n.related_class
                            /\ poll'.result[i] =
                                  [type |-> "Scheduled", class |-> c.data,
                                   user_id |-> n.related_user_id]}
            IN  /\ Len(poll'.result) =
                       BagCardinality([n \in live |-> notifications[n]])
                /\ \A n \in live : events_of(n) # {}
                /\ \A i \in 1..Len(poll'.result) :
                       \E n \in live : i \in events_of(n)
       /\ (dispatcherPc = "delete" /\ dispatcherPc' = "wait") =>
            /\ \A n \in BagToSet(poll'.deleted) :
                   CopiesIn(n, notifications') = 0
            /\ outbound' = IF poll.result = <<>> THEN outbound
                           ELSE Append(outbound, poll.result)]_vars

\* C34 witness: a completed tick deleted the due rows the resync had
\* planned for a class that was removed before the tick, and sent nothing
C34_Witness ==
    /\ poll.step = "done"
    /\ poll.result = <<>>
    /\ outbound = <<>>
    /\ \E n \in BagToSet(poll.deleted) :
          /\ n.related_class # LeftOver.related_class
          /\ n.fire_date <= Unwrap(poll.observed)
          /\ \A c \in poll.classes : c.id # n.related_class
          /\ CopiesIn(n, notifications) = 0

\* C36: a tick that returns Ok writes the selected date into the cursor
\* field of the selected mode (last_day_parsed for ParsingNew,
\* last_day_reparsed for Refreshing) and leaves the other field and the
\* name as they were; the collection never holds two cursor rows of the
\* parser's name.
C36_CursorUpdateWritesOneField ==
    /\ [][(tick'.n = tick.n + 1 /\ tick'.result = "ok") =>
             LET old == GetCurrentParserData(datas).data
                 new == GetCurrentParserData(datas').data
                 selector == Unwrap(tick'.sel)
             IN  /\ new.name = old.name
                 /\ selector.kind = "ParsingNew" =>
                       /\ new.last_day_parsed = Some(selector.date)
                       /\ new.last_day_reparsed = old.last_day_reparsed
                 /\ selector.kind = "Refreshing" =>
                       /\ new.last_day_reparsed = Some(selector.date)
                       /\ new.last_day_parsed = old.last_day_parsed]_vars
    /\ [](Cardinality(DataRows(datas)) <= 1)

\* C36 witness: a refreshing tick returned Ok and the cursor holds its
\* date as last_day_reparsed beside a different last_day_parsed
C36_Witness ==
    /\ tick.result = "ok" /\ tick.sel # None
    /\ Unwrap(tick.sel).kind = "Refreshing"
    /\ Cardinality(DataRows(datas)) = 1
    /\ LET data == GetCurrentParserData(datas).data
       IN  /\ data.last_day_reparsed = Some(Unwrap(tick.sel).date)
           /\ data.last_day_parsed # None
           /\ data.last_day_parsed # data.last_day_reparsed

\* C38: a tick that changes the classes collection hands an UpdateEvents
\* batch with the classes it added and removed to the events channel
\* before it ends.
C38_CommittedChangeIsReported ==
    [][(tick'.n = tick.n + 1 /\ classes' # classes) =>
          /\ tick'.batch # None
          /\ Unwrap(tick'.batch) =
                UpdateEvents([added |-> classes' \ classes,
                              removed |-> classes \ classes'])]_vars

\* C37: replace_or_fill_day called with an empty list returns Ok with an
\* empty delta and leaves the classes collection as it was, the classes
\* stored for the day included.
C37_EmptyParsedIsNoOp ==
    (call.made /\ call.parsed = <<>>) =>
        /\ call.ok
        /\ call.delta = [added |-> {}, removed |-> {}]
        /\ call.inserted = {} /\ call.deleted = {}
        /\ classes = call.before

\* C37 witness: the call with the empty list was made while the store
\* held a class of the day
C37_Witness ==
    /\ call.made /\ call.parsed = <<>> /\ call.ok
    /\ \E c \in call.before :
          /\ \E date \in ReconcileDates : DateNaive(c.data.start) = date
          /\ c \in classes

\* C39: the sweep of the full resync removes no notification whose class
\* is stored unless the Propagator has already produced its Scheduled
\* event.
C39_SweepOnlyAfterFired ==
    [][(plannerPc = "start" /\ plannerPc' = "loop") =>
          \A n \in BagToSet(notifications) :
              (/\ \E c \in classes : c.id = n.related_class
               /\ CopiesIn(n, notifications') < CopiesIn(n, notifications))
                  => BagIn(n, poll.fired)]_vars

\* C40: over a run the Propagator produces at most one Scheduled event
\* for a notification (user, class, fire_date).
C40_FiredAtMostOnce ==
    \A n \in BagToSet(poll.fired) : CopiesIn(n, poll.fired) <= 1

====
